---- MODULE Spec2Model ----
(***************************************************************************)
(* The remote-asset cache of mainnohup.py: the two module-level maps       *)
(* CACHED_FILES (key -> remote file_id) and FILE_HASHES (key -> digest),   *)
(* the delivery pipeline send_cached_file, the command handlers that call  *)
(* it, and the administrative handlers.  Handlers are coroutines: each     *)
(* action below is the synchronous stretch of code between two awaits, and *)
(* different handlers interleave only at their awaits.  Invocations of the *)
(* handlers may overlap, as the specification's concurrency model has it   *)
(* (one task per inbound request); main() builds the Application without   *)
(* concurrent_updates, so a deployment with the library's default          *)
(* dispatcher starts a handler only when the previous one has returned,    *)
(* and the overlaps of two handlers below need a concurrent dispatcher.    *)
(* The two pipelines of /instalar and the changes of the files made from   *)
(* outside overlap under either dispatcher.                                *)
(***************************************************************************)
EXTENDS Integers, Sequences, FiniteSets, TLC

\* ---------------------------------------------------------------- bounds
MaxHandlers == 2      \* Spec: handler invocations in one run (they may overlap)
MaxFileEvents == 1    \* Spec: changes of the file system made from outside
MaxFaults == 1        \* Spec: transport calls that fail in one run
MaxRequests == 3      \* SpecKey, SpecInstalar: handler invocations in one run
MaxKeyEvents == 2     \* SpecKey, SpecInstalar: outside changes of the files
MaxKeyFaults == 2     \* SpecKey, SpecInstalar: failing transport calls
MaxOverlap == 1       \* SpecInstalar: /instalar handlers in flight at a time
MaxDigest == 2        \* distinct file contents

\* ------------------------------------------------------- values of the code
None == 0             \* get_file_hash's None
Missing == 0          \* os.path.exists(path) is False
Unreadable == -1      \* the path exists, open()/read raises

ADMIN_IDS == {123456789}
Users == ADMIN_IDS \cup {987654321}

Digests == 1..MaxDigest
FileStates == {Missing, Unreadable} \cup Digests

\* (file, key) of every asset, as the handlers spell them
InstalarVideos == << <<"Samsung.mp4", "Samsung">>, <<"Xiaomi.mp4", "Xiaomi">> >>
PasarPedidoAsset == <<"PasarPedido.mp4", "pasar_pedido">>
IngresarAsset == <<"ingresar.pdf", "ingresar">>
ClaveAsset == <<"clave.pdf", "clave">>
ForceAssets ==
    << <<"Samsung.mp4", "samsung">>, <<"Xiaomi.mp4", "xiaomi">>,
       <<"PasarPedido.mp4", "pasar_pedido">>,
       <<"ingresar.pdf", "ingresar">>, <<"clave.pdf", "clave">> >>

Files == {"Samsung.mp4", "Xiaomi.mp4", "PasarPedido.mp4", "ingresar.pdf", "clave.pdf"}
Keys == {"Samsung", "Xiaomi", "samsung", "xiaomi", "pasar_pedido", "ingresar", "clave"}

SingleCmds == {"pasar_pedido", "ingresar", "clave"}
AssetOf(cmd) ==
    IF cmd = "pasar_pedido" THEN PasarPedidoAsset
    ELSE IF cmd = "ingresar" THEN IngresarAsset ELSE ClaveAsset

VARIABLES
    file,          \* the content source: file -> Missing | Unreadable | digest
    CACHED_FILES,  \* dict key -> file_id
    FILE_HASHES,   \* dict key -> digest or None
    hs,            \* the handler invocations and where each one stands
    issued,        \* file_id -> what was transmitted and stored for it
    fresh,         \* keys whose entry a delivery wrote and nothing disturbed
    events,        \* outside file changes the run may still see
    faults,        \* failing transport calls the run may still see
    hc             \* the last stand-alone file_has_changed call

vars == <<file, CACHED_FILES, FILE_HASHES, hs, issued, fresh, events, faults, hc>>

\* ------------------------------------------------------------ dict helpers
EmptyDict == [k \in {} |-> 0]
Has(d, k) == k \in DOMAIN d
Put(d, k, v) == [x \in (DOMAIN d) \cup {k} |-> IF x = k THEN v ELSE d[x]]
Del(d, k) == [x \in (DOMAIN d) \ {k} |-> d[x]]

\* ------------------------------------------------------------------ Hasher
\* get_file_hash: None for a missing path and for any exception while reading
get_file_hash(path) ==
    IF file[path] = Missing THEN None
    ELSE IF file[path] = Unreadable THEN None
    ELSE file[path]

\* ---------------------------------------------------------- ChangeDetector
\* Faulty variants of file_has_changed, for the sensitivity of C4, C6, C7.
\* AlwaysNew: reports a change whenever the file can be hashed.
file_has_changed_AlwaysNew(fh, path, key) ==
    LET current_hash == get_file_hash(path) IN
    IF current_hash = None THEN [changed |-> FALSE, fh |-> fh]
    ELSE [changed |-> TRUE, fh |-> Put(fh, key, current_hash)]

\* NoRecord: reports a changed digest but keeps the old baseline.
file_has_changed_NoRecord(fh, path, key) ==
    LET current_hash == get_file_hash(path) IN
    IF current_hash = None THEN [changed |-> FALSE, fh |-> fh]
    ELSE IF ~Has(fh, key) THEN [changed |-> TRUE, fh |-> Put(fh, key, current_hash)]
    ELSE [changed |-> fh[key] # current_hash, fh |-> fh]

\* NoneIsNew: lacks the early return on a None digest.
file_has_changed_NoneIsNew(fh, path, key) ==
    LET current_hash == get_file_hash(path) IN
    IF ~Has(fh, key) THEN [changed |-> TRUE, fh |-> Put(fh, key, current_hash)]
    ELSE IF fh[key] # current_hash
         THEN [changed |-> TRUE, fh |-> Put(fh, key, current_hash)]
    ELSE [changed |-> FALSE, fh |-> fh]

\* file_has_changed: the verdict and FILE_HASHES afterwards
file_has_changed(fh, path, key) ==
    LET current_hash == get_file_hash(path) IN
    IF current_hash = None THEN [changed |-> FALSE, fh |-> fh]
    ELSE IF ~Has(fh, key) THEN [changed |-> TRUE, fh |-> Put(fh, key, current_hash)]
    ELSE IF fh[key] # current_hash
         THEN [changed |-> TRUE, fh |-> Put(fh, key, current_hash)]
    ELSE [changed |-> FALSE, fh |-> fh]

\* Faulty variant of is_admin, for the sensitivity of C8: lets everyone in.
is_admin_Everyone(user_id) == user_id \in Users

is_admin(user_id) == user_id \in ADMIN_IDS

\* --------------------------------------------------- send_cached_file
\* One call of send_cached_file is a pipeline record p:
\*   pc   "start" | "cache_wait" | "tx_wait" | "msg_wait" | "done"
\*   res  "" | "DeliveredRef" | "DeliveredSrc" | "NotFound" | "Failed"
\*        | "Raised" | "Msg"
\*   tx     the content read for the transmission in flight
\*   refId  the file_id given to the delivery by reference in flight
\*   log    the cache writes this call has made ("inv", "put")
\*   rej    the transport rejected the cached file_id in this call
\*   chg    the verdict of the change check of this call
\*   refs, txs  deliveries by reference / transmissions attempted
\* and, recorded for the properties only:
\*   had, id1   on entry the key had an entry; its file_id
\*   fr         on entry the key was in fresh
\*   nohash     on entry get_file_hash gave None
\*   kept       the change check left both maps as they were
\*   h2         on entry the key had an entry and the file a digest other
\*              than the recorded one: that digest, else 0
\*   srcOk      the source file has been readable whenever the call looked,
\*              and ever since the call was made
\*   txFailed   the transport refused the transmission
\*   putId, putDigest  what the call wrote into the two maps
NewPipe(asset) ==
    [file |-> asset[1], key |-> asset[2], pc |-> "start", res |-> "",
     tx |-> None, refId |-> 0, log |-> <<>>, rej |-> FALSE, chg |-> FALSE,
     refs |-> 0, txs |-> 0, had |-> FALSE, id1 |-> 0, fr |-> FALSE,
     nohash |-> FALSE, kept |-> TRUE, h2 |-> 0, srcOk |-> file[asset[1]] \in Digests,
     txFailed |-> FALSE, putId |-> 0, putDigest |-> None]

Delivered(p) == p.res \in {"DeliveredRef", "DeliveredSrc"}

\* lines 107-131 up to the await of the transmission
BeginFallback(p, cf, fh) ==
    IF file[p.file] # Missing
    THEN IF file[p.file] = Unreadable
         THEN [cf |-> cf, fh |-> fh,
               p |-> [p EXCEPT !.pc = "done", !.res = "Failed", !.srcOk = FALSE]]
         ELSE [cf |-> cf, fh |-> fh,
               p |-> [p EXCEPT !.pc = "tx_wait", !.tx = file[p.file],
                                !.txs = @ + 1]]
    ELSE [cf |-> cf, fh |-> fh,
          p |-> [p EXCEPT !.pc = "done", !.res = "NotFound", !.srcOk = FALSE]]

\* lines 80-91/95: the change check, then the cached file_id if there is one
EnterSend(p, cf, fh) ==
    LET c == file_has_changed(fh, p.file, p.key)
        drop == c.changed /\ Has(cf, p.key)
        cf1 == IF drop THEN Del(cf, p.key) ELSE cf
        cur == get_file_hash(p.file)
        p1 == [p EXCEPT !.chg = c.changed,
                        !.log = IF drop THEN Append(@, "inv") ELSE @,
                        !.had = Has(cf, p.key),
                        !.id1 = IF Has(cf, p.key) THEN cf[p.key] ELSE 0,
                        !.fr = p.key \in fresh,
                        !.nohash = (cur = None),
                        !.kept = (cf1 = cf /\ c.fh = fh),
                        !.h2 = IF Has(cf, p.key) /\ Has(fh, p.key) /\ cur # None
                                  /\ fh[p.key] # cur
                               THEN cur ELSE 0]
    IN  IF Has(cf1, p.key)
        THEN [cf |-> cf1, fh |-> c.fh,
              p |-> [p1 EXCEPT !.pc = "cache_wait", !.refId = cf1[p.key],
                               !.refs = @ + 1]]
        ELSE BeginFallback(p1, cf1, c.fh)

\* Faulty variant of CacheReply, for the sensitivity of C2: a rejected
\* file_id is not removed before the fallback.
CacheReply_KeepsEntry(p, ok, cf, fh) ==
    IF ok
    THEN [cf |-> cf, fh |-> fh,
          p |-> [p EXCEPT !.pc = "done", !.res = "DeliveredRef"]]
    ELSE BeginFallback([p EXCEPT !.rej = TRUE], cf, fh)

\* Faulty variant of CacheReply, for the sensitivity of C20: a rejected
\* file_id empties both maps.
CacheReply_ClearsAll(p, ok, cf, fh) ==
    IF ok
    THEN [cf |-> cf, fh |-> fh,
          p |-> [p EXCEPT !.pc = "done", !.res = "DeliveredRef"]]
    ELSE BeginFallback([p EXCEPT !.rej = TRUE, !.log = Append(@, "inv")],
                       EmptyDict, EmptyDict)

\* Faulty variant of CacheReply, for the sensitivity of C17: a rejected
\* file_id is tried again.
CacheReply_Retries(p, ok, cf, fh) ==
    IF ok
    THEN [cf |-> cf, fh |-> fh,
          p |-> [p EXCEPT !.pc = "done", !.res = "DeliveredRef"]]
    ELSE [cf |-> cf, fh |-> fh, p |-> [p EXCEPT !.rej = TRUE, !.refs = @ + 1]]

\* lines 92-104: the delivery by reference returned (ok) or raised
CacheReply(p, ok, cf, fh) ==
    IF ok
    THEN [cf |-> cf, fh |-> fh,
          p |-> [p EXCEPT !.pc = "done", !.res = "DeliveredRef"]]
    ELSE IF ~Has(cf, p.key)
         THEN \* del CACHED_FILES[key] raises KeyError inside the except block
              [cf |-> cf, fh |-> fh,
               p |-> [p EXCEPT !.pc = "done", !.res = "Raised", !.rej = TRUE]]
         ELSE BeginFallback([p EXCEPT !.rej = TRUE, !.log = Append(@, "inv")],
                            Del(cf, p.key), Del(fh, p.key))

\* Faulty variant of TxReply, for the sensitivity of C10: the file_id is
\* written, the digest is not.
TxReply_IdOnly(p, ok, cf, fh, id) ==
    IF ok
    THEN [cf |-> Put(cf, p.key, id),
          fh |-> fh,
          p |-> [p EXCEPT !.pc = "done", !.res = "DeliveredSrc",
                          !.log = Append(@, "put"), !.putId = id,
                          !.putDigest = get_file_hash(p.file)]]
    ELSE [cf |-> cf, fh |-> fh,
          p |-> [p EXCEPT !.pc = "done", !.res = "Failed", !.txFailed = TRUE]]

\* Faulty variant of TxReply, for the sensitivity of C19: the entry is
\* written only if the key still has the baseline of the change check.
TxReply_SkipsIfCleared(p, ok, cf, fh, id) ==
    IF ok
    THEN IF Has(fh, p.key)
         THEN [cf |-> Put(cf, p.key, id),
               fh |-> Put(fh, p.key, get_file_hash(p.file)),
               p |-> [p EXCEPT !.pc = "done", !.res = "DeliveredSrc",
                               !.log = Append(@, "put"), !.putId = id,
                               !.putDigest = get_file_hash(p.file)]]
         ELSE [cf |-> cf, fh |-> fh,
               p |-> [p EXCEPT !.pc = "done", !.res = "DeliveredSrc"]]
    ELSE [cf |-> cf, fh |-> fh,
          p |-> [p EXCEPT !.pc = "done", !.res = "Failed", !.txFailed = TRUE]]

\* Faulty variant of TxReply, for the sensitivity of C11: the digest is
\* recorded before the outcome of the transmission is known.
TxReply_RecordsOnFail(p, ok, cf, fh, id) ==
    IF ok
    THEN [cf |-> Put(cf, p.key, id),
          fh |-> Put(fh, p.key, get_file_hash(p.file)),
          p |-> [p EXCEPT !.pc = "done", !.res = "DeliveredSrc",
                          !.log = Append(@, "put"), !.putId = id,
                          !.putDigest = get_file_hash(p.file)]]
    ELSE [cf |-> cf, fh |-> Put(fh, p.key, p.tx + 1),
          p |-> [p EXCEPT !.pc = "done", !.res = "Failed", !.txFailed = TRUE]]

\* lines 112-128: the transmission returned a message (ok) or raised
TxReply(p, ok, cf, fh, id) ==
    IF ok
    THEN [cf |-> Put(cf, p.key, id),
          fh |-> Put(fh, p.key, get_file_hash(p.file)),
          p |-> [p EXCEPT !.pc = "done", !.res = "DeliveredSrc",
                          !.log = Append(@, "put"), !.putId = id,
                          !.putDigest = get_file_hash(p.file)]]
    ELSE [cf |-> cf, fh |-> fh,
          p |-> [p EXCEPT !.pc = "done", !.res = "Failed", !.txFailed = TRUE]]

\* ---------------------------------------------------------------- handlers
\* One handler invocation:
\*   cmd      the command, "" while the slot is unused
\*   user     the caller's id where the handler reads it, else 0
\*   pc       "idle" | "run" | "fc_tx" | "done"
\*   p        the send_cached_file calls of the handler (instalar: one per video)
\*   idx, tx  force_cache: the asset in flight and the content read for it
\*   count    instalar/force_cache: success_count; clear_cache: files_count
\*   outcome  what the caller is told
\*   alone    no other handler ran between this one's start and now
\*   tried, skipped, puts   force_cache: the assets (by position) it has
\*            transmitted, passed over because the file did not open, and
\*            written into the maps
\* The reply_text calls that open and close a handler touch neither map, so a
\* handler enters the model at its first stretch of code that does and is
\* "done" when nothing but a closing reply_text is left.
IdleHandler ==
    [cmd |-> "", user |-> 0, pc |-> "idle", p |-> <<>>, idx |-> 0, tx |-> None,
     count |-> 0, outcome |-> "", alone |-> TRUE,
     tried |-> {}, skipped |-> {}, puts |-> {}]

Slots == DOMAIN hs
Active(h) == h.pc \notin {"idle", "done"}

\* error_handler, lines 137-141: an exception that leaves a handler is logged
\* and the caller is sent the general error notice
error_handler(h) == [h EXCEPT !.pc = "done", !.outcome = "Raised"]

\* Faulty variant of Settle, for the sensitivity of C18: an exception of
\* send_cached_file is swallowed and the handler never answers.
Settle_Swallows(h) ==
    IF h.cmd \in SingleCmds /\ h.pc = "run" /\ h.p[1].pc = "done"
    THEN IF Delivered(h.p[1]) THEN [h EXCEPT !.pc = "done", !.outcome = "Sent"]
         ELSE IF h.p[1].res = "Raised" THEN h
              ELSE [h EXCEPT !.pc = "done", !.outcome = "NotSent"]
    ELSE h

\* a single-asset handler continues as soon as its send_cached_file returns
\* (lines 228-234, 245-251, 262-268): delivered, or the "not found" notice
Settle(h) ==
    IF h.cmd \in SingleCmds /\ h.pc = "run" /\ h.p[1].pc = "done"
    THEN IF Delivered(h.p[1]) THEN [h EXCEPT !.pc = "done", !.outcome = "Sent"]
         ELSE IF h.p[1].res = "Raised" THEN error_handler(h)
              ELSE [h EXCEPT !.pc = "done", !.outcome = "NotSent"]
    ELSE h

\* the ghost set fresh after a step that leaves the identifier map as cf
Fresh(cf, added) == (fresh \cap DOMAIN cf) \cup added

\* handler h takes the slot s; the handlers in flight are no longer alone
Begin(s, h) ==
    /\ hs[s].pc = "idle"
    /\ \A t \in Slots : t < s => hs[t].pc # "idle"
    /\ hs' = [t \in Slots |->
                IF t = s
                THEN [h EXCEPT !.alone = \A u \in Slots \ {s} : ~Active(hs[u])]
                ELSE IF Active(hs[t]) THEN [hs[t] EXCEPT !.alone = FALSE]
                ELSE hs[t]]

\* a transport call may fail while the run's budget of failures lasts
Transport(ok) ==
    /\ ok \/ faults > 0
    /\ faults' = IF ok THEN faults ELSE faults - 1

\* store the result r = [cf, fh, p] of a stretch of send_cached_file call i of s
Commit(s, i, r) ==
    /\ CACHED_FILES' = r.cf
    /\ FILE_HASHES' = r.fh
    /\ hs' = [hs EXCEPT ![s] = Settle([@ EXCEPT !.p[i] = r.p])]

\* /pasar_pedido, /ingresar, /clave (lines 226-231, 243-248, 260-265):
\* the call of send_cached_file
StartSingle(s, cmd) ==
    /\ LET r == EnterSend(NewPipe(AssetOf(cmd)), CACHED_FILES, FILE_HASHES)
       IN  /\ Begin(s, Settle([IdleHandler EXCEPT !.cmd = cmd, !.pc = "run",
                                                  !.p = <<r.p>>]))
           /\ CACHED_FILES' = r.cf
           /\ FILE_HASHES' = r.fh
           /\ fresh' = Fresh(r.cf, {})
    /\ UNCHANGED <<file, issued, events, faults, hc>>

\* /instalar, lines 197-208: one task per video, a reply_text for a missing one
InstalarTask(asset) ==
    IF file[asset[1]] # Missing THEN NewPipe(asset)
    ELSE [NewPipe(asset) EXCEPT !.pc = "msg_wait"]

StartInstalar(s) ==
    /\ Begin(s, [IdleHandler EXCEPT !.cmd = "instalar", !.pc = "run",
                     !.p = [i \in 1..Len(InstalarVideos) |->
                               InstalarTask(InstalarVideos[i])]])
    /\ UNCHANGED <<file, CACHED_FILES, FILE_HASHES, issued, fresh, events, faults, hc>>

\* a gathered send_cached_file task runs to its first await
TaskStart(s, i) ==
    /\ hs[s].pc = "run"
    /\ i \in 1..Len(hs[s].p)
    /\ hs[s].p[i].pc = "start"
    /\ \A j \in 1..(i - 1) : hs[s].p[j].pc # "start"
    /\ LET r == EnterSend(hs[s].p[i], CACHED_FILES, FILE_HASHES)
       IN  /\ Commit(s, i, r)
           /\ fresh' = Fresh(r.cf, {})
    /\ UNCHANGED <<file, issued, events, faults, hc>>

\* the reply_text task of a missing video ends
MsgResp(s, i, ok) ==
    /\ hs[s].pc = "run"
    /\ i \in 1..Len(hs[s].p)
    /\ hs[s].p[i].pc = "msg_wait"
    /\ Transport(ok)
    /\ hs' = [hs EXCEPT ![s].p[i].pc = "done",
                        ![s].p[i].res = IF ok THEN "Msg" ELSE "Raised"]
    /\ UNCHANGED <<file, CACHED_FILES, FILE_HASHES, issued, fresh, events, hc>>

\* the transport answers a delivery by reference
CacheResp(s, i, ok) ==
    /\ hs[s].pc = "run"
    /\ i \in 1..Len(hs[s].p)
    /\ hs[s].p[i].pc = "cache_wait"
    /\ Transport(ok)
    /\ LET r == CacheReply(hs[s].p[i], ok, CACHED_FILES, FILE_HASHES)
       IN  /\ Commit(s, i, r)
           /\ fresh' = Fresh(r.cf, {})
    /\ UNCHANGED <<file, issued, events, hc>>

\* the transport answers a transmission of the source file
TxResp(s, i, ok) ==
    /\ hs[s].pc = "run"
    /\ i \in 1..Len(hs[s].p)
    /\ hs[s].p[i].pc = "tx_wait"
    /\ Transport(ok)
    /\ LET id == Len(issued) + 1
           r == TxReply(hs[s].p[i], ok, CACHED_FILES, FILE_HASHES, id)
       IN  /\ Commit(s, i, r)
           /\ issued' = IF ok
                        THEN Append(issued, [content |-> hs[s].p[i].tx,
                                             digest |-> r.p.putDigest])
                        ELSE issued
           /\ fresh' = Fresh(r.cf, IF ok THEN {hs[s].p[i].key} ELSE {})
    /\ UNCHANGED <<file, events, hc>>

\* lines 208-217: gather returned; count the results that are True
SuccessCount(ps) == Cardinality({i \in 1..Len(ps) : Delivered(ps[i])})

Gather(s) ==
    /\ hs[s].pc = "run"
    /\ hs[s].cmd = "instalar"
    /\ \A i \in 1..Len(hs[s].p) : hs[s].p[i].pc = "done"
    /\ hs' = [hs EXCEPT ![s].pc = "done", ![s].outcome = "Counted",
                        ![s].count = SuccessCount(hs[s].p)]
    /\ UNCHANGED <<file, CACHED_FILES, FILE_HASHES, issued, fresh, events, faults, hc>>

\* ------------------------------------------------------------------ AdminOps
\* Faulty variant of StartClear, for the sensitivity of C13: FILE_HASHES is
\* not cleared.
StartClear_KeepsBaselines(s, user) ==
    /\ IF ~is_admin(user)
       THEN /\ Begin(s, [IdleHandler EXCEPT !.cmd = "clear_cache", !.user = user,
                             !.pc = "done", !.outcome = "PermissionDenied"])
            /\ UNCHANGED <<CACHED_FILES, FILE_HASHES, fresh>>
       ELSE /\ Begin(s, [IdleHandler EXCEPT !.cmd = "clear_cache", !.user = user,
                             !.pc = "done", !.outcome = "Cleared",
                             !.count = Cardinality(DOMAIN CACHED_FILES)])
            /\ CACHED_FILES' = EmptyDict
            /\ FILE_HASHES' = FILE_HASHES
            /\ fresh' = {}
    /\ UNCHANGED <<file, issued, events, faults, hc>>

\* Faulty variant of StartClear, for the sensitivity of C21: CACHED_FILES is
\* not cleared.
StartClear_KeepsEntries(s, user) ==
    /\ IF ~is_admin(user)
       THEN /\ Begin(s, [IdleHandler EXCEPT !.cmd = "clear_cache", !.user = user,
                             !.pc = "done", !.outcome = "PermissionDenied"])
            /\ UNCHANGED <<CACHED_FILES, FILE_HASHES, fresh>>
       ELSE /\ Begin(s, [IdleHandler EXCEPT !.cmd = "clear_cache", !.user = user,
                             !.pc = "done", !.outcome = "Cleared",
                             !.count = Cardinality(DOMAIN CACHED_FILES)])
            /\ CACHED_FILES' = CACHED_FILES
            /\ FILE_HASHES' = EmptyDict
            /\ fresh' = {}
    /\ UNCHANGED <<file, issued, events, faults, hc>>

\* clear_cache, lines 472-492
StartClear(s, user) ==
    /\ IF ~is_admin(user)
       THEN /\ Begin(s, [IdleHandler EXCEPT !.cmd = "clear_cache", !.user = user,
                             !.pc = "done", !.outcome = "PermissionDenied"])
            /\ UNCHANGED <<CACHED_FILES, FILE_HASHES, fresh>>
       ELSE /\ Begin(s, [IdleHandler EXCEPT !.cmd = "clear_cache", !.user = user,
                             !.pc = "done", !.outcome = "Cleared",
                             !.count = Cardinality(DOMAIN CACHED_FILES)])
            /\ CACHED_FILES' = EmptyDict
            /\ FILE_HASHES' = EmptyDict
            /\ fresh' = {}
    /\ UNCHANGED <<file, issued, events, faults, hc>>

\* cache_status, lines 452-469: no caller check; file_hash[:8] raises on None
StatusRaises ==
    \E k \in DOMAIN CACHED_FILES : Has(FILE_HASHES, k) /\ FILE_HASHES[k] = None

StartStatus(s, user) ==
    /\ IF StatusRaises
       THEN Begin(s, [IdleHandler EXCEPT !.cmd = "cache_status", !.user = user,
                          !.pc = "done", !.outcome = "Raised"])
       ELSE Begin(s, [IdleHandler EXCEPT !.cmd = "cache_status", !.user = user,
                          !.pc = "done", !.outcome = "Status",
                          !.count = Cardinality(DOMAIN CACHED_FILES)])
    /\ UNCHANGED <<file, CACHED_FILES, FILE_HASHES, issued, fresh, events, faults, hc>>

\* debug_cache, lines 306-376: current_hash[:8] and stored_hash[:8] raise on None
DebugAssets ==
    << <<"Samsung.mp4", "samsung">>, <<"Xiaomi.mp4", "xiaomi">>,
       <<"PasarPedido.mp4", "pasar_pedido">>,
       <<"ingresar.pdf", "ingresar">>, <<"clave.pdf", "clave">> >>

DebugRaises ==
    \E i \in 1..Len(DebugAssets) :
        \/ file[DebugAssets[i][1]] = Unreadable
        \/ Has(FILE_HASHES, DebugAssets[i][2]) /\ FILE_HASHES[DebugAssets[i][2]] = None

StartDebug(s, user) ==
    /\ IF ~is_admin(user)
       THEN Begin(s, [IdleHandler EXCEPT !.cmd = "debug_cache", !.user = user,
                          !.pc = "done", !.outcome = "PermissionDenied"])
       ELSE IF DebugRaises
       THEN Begin(s, [IdleHandler EXCEPT !.cmd = "debug_cache", !.user = user,
                          !.pc = "done", !.outcome = "Raised"])
       ELSE Begin(s, [IdleHandler EXCEPT !.cmd = "debug_cache", !.user = user,
                          !.pc = "done", !.outcome = "Debug",
                          !.count = Cardinality(DOMAIN CACHED_FILES)])
    /\ UNCHANGED <<file, CACHED_FILES, FILE_HASHES, issued, fresh, events, faults, hc>>

\* Faulty variant of NextForce, for the sensitivity of C15: the loop ends at
\* the first file that does not open.
NextForce_StopsAtMissing(i) ==
    IF i > Len(ForceAssets) THEN i
    ELSE IF file[ForceAssets[i][1]] \in Digests THEN i
    ELSE Len(ForceAssets) + 1

\* lines 405-408, 426-429: the next asset from i on whose file opens
RECURSIVE NextForce(_)
NextForce(i) ==
    IF i > Len(ForceAssets) THEN i
    ELSE IF file[ForceAssets[i][1]] \in Digests THEN i
    ELSE NextForce(i + 1)

\* force_cache running on from asset i until its next await
ForceOn(h, i) ==
    LET n == NextForce(i)
        over == {j \in i..(n - 1) : j <= Len(ForceAssets)
                                      /\ file[ForceAssets[j][1]] \notin Digests}
    IN  IF n > Len(ForceAssets)
        THEN [h EXCEPT !.pc = "done", !.outcome = "Recached", !.idx = n, !.tx = None,
                       !.skipped = @ \cup over]
        ELSE [h EXCEPT !.pc = "fc_tx", !.idx = n, !.tx = file[ForceAssets[n][1]],
                       !.skipped = @ \cup over, !.tried = @ \cup {n}]

\* force_cache, lines 379-410: the caller check, both maps cleared, then the
\* first transmission
StartForce(s, user) ==
    /\ IF ~is_admin(user)
       THEN /\ Begin(s, [IdleHandler EXCEPT !.cmd = "force_cache", !.user = user,
                             !.pc = "done", !.outcome = "PermissionDenied"])
            /\ UNCHANGED <<CACHED_FILES, FILE_HASHES, fresh>>
       ELSE /\ Begin(s, ForceOn([IdleHandler EXCEPT !.cmd = "force_cache",
                                                    !.user = user], 1))
            /\ CACHED_FILES' = EmptyDict
            /\ FILE_HASHES' = EmptyDict
            /\ fresh' = {}
    /\ UNCHANGED <<file, issued, events, faults, hc>>

\* lines 410-416, 431-441: the write after a transmission of force_cache
ForcePut(key, path, ok, cf, fh, id) ==
    IF ok
    THEN [cf |-> Put(cf, key, id), fh |-> Put(fh, key, get_file_hash(path)),
          digest |-> get_file_hash(path)]
    ELSE [cf |-> cf, fh |-> fh, digest |-> None]

ForceTxResp(s, ok) ==
    /\ hs[s].pc = "fc_tx"
    /\ Transport(ok)
    /\ LET a == ForceAssets[hs[s].idx]
           id == Len(issued) + 1
           r == ForcePut(a[2], a[1], ok, CACHED_FILES, FILE_HASHES, id)
       IN  /\ CACHED_FILES' = r.cf
           /\ FILE_HASHES' = r.fh
           /\ issued' = IF ok
                        THEN Append(issued, [content |-> hs[s].tx, digest |-> r.digest])
                        ELSE issued
           /\ fresh' = Fresh(r.cf, {})
           /\ hs' = [hs EXCEPT ![s] =
                        ForceOn([@ EXCEPT !.count = IF ok THEN @ + 1 ELSE @,
                                          !.puts = IF ok THEN @ \cup {hs[s].idx} ELSE @],
                                hs[s].idx + 1)]
    /\ UNCHANGED <<file, events, hc>>

\* the (file, key) pairs the delivery commands hand to send_cached_file
DeliveryAssets ==
    {InstalarVideos[i] : i \in 1..Len(InstalarVideos)}
    \cup {AssetOf(c) : c \in SingleCmds}

\* ------------------------------------------------------------- environment
\* the keys whose source is the file f
KeysOf(f) ==
    {InstalarVideos[i][2] : i \in {j \in 1..Len(InstalarVideos) : InstalarVideos[j][1] = f}}
    \cup {ForceAssets[i][2] : i \in {j \in 1..Len(ForceAssets) : ForceAssets[j][1] = f}}

\* somebody edits, removes, restores or locks a source file
Outside(h, f, v) ==
    [h EXCEPT !.p = [i \in 1..Len(h.p) |->
                       IF h.p[i].file = f /\ h.p[i].pc # "done" /\ v \notin Digests
                       THEN [h.p[i] EXCEPT !.srcOk = FALSE] ELSE h.p[i]]]

FileEvent(f, v) ==
    /\ events > 0
    /\ v # file[f]
    /\ file' = [file EXCEPT ![f] = v]
    /\ events' = events - 1
    /\ fresh' = fresh \ KeysOf(f)
    /\ hs' = [s \in Slots |-> Outside(hs[s], f, v)]
    /\ UNCHANGED <<CACHED_FILES, FILE_HASHES, issued, faults, hc>>

NoCall ==
    [key |-> "", res |-> FALSE, exp |-> FALSE, had |-> FALSE, wasDirty |-> FALSE,
     wasSteady |-> FALSE, cur |-> None, seen |-> EmptyDict, dirty |-> {}, steady |-> {}]

\* the state after the module is loaded, with room for n handler invocations,
\* e outside file changes and t failing transport calls
Start(n, e, t) ==
    /\ file = [f \in Files |-> 1]
    /\ CACHED_FILES = EmptyDict
    /\ FILE_HASHES = EmptyDict
    /\ hs = [s \in 1..n |-> IdleHandler]
    /\ issued = <<>>
    /\ fresh = {}
    /\ events = e
    /\ faults = t
    /\ hc = NoCall

Init == Start(MaxHandlers, MaxFileEvents, MaxFaults)

Next ==
    \/ \E s \in Slots, c \in SingleCmds : StartSingle(s, c)
    \/ \E s \in Slots : StartInstalar(s)
    \/ \E s \in Slots, i \in 1..2 : TaskStart(s, i)
    \/ \E s \in Slots, i \in 1..2, ok \in BOOLEAN : MsgResp(s, i, ok)
    \/ \E s \in Slots, i \in 1..2, ok \in BOOLEAN : CacheResp(s, i, ok)
    \/ \E s \in Slots, i \in 1..2, ok \in BOOLEAN : TxResp(s, i, ok)
    \/ \E s \in Slots : Gather(s)
    \/ \E s \in Slots, u \in Users : StartClear(s, u)
    \/ \E s \in Slots, u \in Users : StartStatus(s, u)
    \/ \E s \in Slots, u \in Users : StartDebug(s, u)
    \/ \E s \in Slots, u \in Users : StartForce(s, u)
    \/ \E s \in Slots, ok \in BOOLEAN : ForceTxResp(s, ok)
    \/ \E f \in Files, v \in FileStates : FileEvent(f, v)

Spec == Init /\ [][Next]_vars

\* the traffic on one key: /pasar_pedido requests and clears
KeyFile == PasarPedidoAsset[1]

InitKey == Start(MaxRequests, MaxKeyEvents, MaxKeyFaults)

NextKey ==
    \/ \E s \in Slots : StartSingle(s, "pasar_pedido")
    \/ \E s \in Slots, ok \in BOOLEAN : CacheResp(s, 1, ok)
    \/ \E s \in Slots, ok \in BOOLEAN : TxResp(s, 1, ok)
    \/ \E s \in Slots, u \in Users : StartClear(s, u)
    \/ \E v \in FileStates : FileEvent(KeyFile, v)

SpecKey == InitKey /\ [][NextKey]_vars

\* the same traffic when every transport call returns and the event loop
\* resumes the coroutine that awaits it
TransportReturns ==
    \A s \in 1..MaxRequests :
        /\ WF_vars(\E ok \in BOOLEAN : CacheResp(s, 1, ok))
        /\ WF_vars(\E ok \in BOOLEAN : TxResp(s, 1, ok))

SpecKeyLive == InitKey /\ [][NextKey]_vars /\ TransportReturns

\* the traffic of /instalar: both videos gathered, and clears
InFlight(cmd) == Cardinality({t \in Slots : hs[t].cmd = cmd /\ Active(hs[t])})

InitInstalar == Start(MaxRequests, MaxFileEvents, MaxFaults)

NextInstalar ==
    \/ \E s \in Slots : InFlight("instalar") < MaxOverlap /\ StartInstalar(s)
    \/ \E s \in Slots, i \in 1..2 : TaskStart(s, i)
    \/ \E s \in Slots, i \in 1..2, ok \in BOOLEAN : MsgResp(s, i, ok)
    \/ \E s \in Slots, i \in 1..2, ok \in BOOLEAN : CacheResp(s, i, ok)
    \/ \E s \in Slots, i \in 1..2, ok \in BOOLEAN : TxResp(s, i, ok)
    \/ \E s \in Slots : Gather(s)
    \/ \E s \in Slots, u \in Users : StartClear(s, u)
    \/ \E i \in 1..2, v \in FileStates : FileEvent(InstalarVideos[i][1], v)

SpecInstalar == InitInstalar /\ [][NextInstalar]_vars

\* file_has_changed on its own: calls for the two keys of one file, and
\* outside changes of that file.  hc keeps the last call and, per key,
\*   seen    the digest the file had at the last call that could hash it
\*   dirty   the file changed since the last call for the key
\*   steady  the file could be hashed at the last call and ever since
DetectAssets == {<<"Samsung.mp4", "Samsung">>, <<"Samsung.mp4", "samsung">>}
DetectKeys == {a[2] : a \in DetectAssets}

DetectCall(a) ==
    LET c == file_has_changed(FILE_HASHES, a[1], a[2])
        now == file[a[1]]
    IN  /\ FILE_HASHES' = c.fh
        /\ hc' = [key |-> a[2], res |-> c.changed,
                  exp |-> now \in Digests /\ (~Has(hc.seen, a[2]) \/ hc.seen[a[2]] # now),
                  had |-> Has(FILE_HASHES, a[2]),
                  wasDirty |-> a[2] \in hc.dirty,
                  wasSteady |-> a[2] \in hc.steady,
                  cur |-> now,
                  seen |-> IF now \in Digests THEN Put(hc.seen, a[2], now) ELSE hc.seen,
                  dirty |-> hc.dirty \ {a[2]},
                  steady |-> IF now \in Digests THEN hc.steady \cup {a[2]}
                             ELSE hc.steady \ {a[2]}]
        /\ UNCHANGED <<file, CACHED_FILES, hs, issued, fresh, events, faults>>

DetectEvent(f, v) ==
    /\ v # file[f]
    /\ file' = [file EXCEPT ![f] = v]
    /\ hc' = [hc EXCEPT !.dirty = DetectKeys,
                        !.steady = IF v \in Digests /\ file[f] \in Digests
                                   THEN @ ELSE {}]
    /\ UNCHANGED <<CACHED_FILES, FILE_HASHES, hs, issued, fresh, events, faults>>

InitDetect == Start(0, 0, 0)

NextDetect ==
    \/ \E a \in DetectAssets : DetectCall(a)
    \/ \E v \in FileStates : DetectEvent("Samsung.mp4", v)

SpecDetect == InitDetect /\ [][NextDetect]_vars

\* ================================================================ properties
Pipes == {x \in Slots \X {1, 2} : x[2] <= Len(hs[x[1]].p)}
Pipe(x) == hs[x[1]].p[x[2]]

\* C1: every key with a cache entry has a stored digest equal to the digest
\* of the content that was transmitted to obtain the stored file_id.
C1_DigestOfTransmitted ==
    \A k \in DOMAIN CACHED_FILES :
        Has(FILE_HASHES, k) /\ FILE_HASHES[k] = issued[CACHED_FILES[k]].content

\* C2: a request that ran with no other handler in flight, on a key that had
\* an entry which did not serve it, with the source readable throughout and
\* the transmission accepted, returns success, and its cache writes are one
\* invalidation followed by one put.
C2_RejectedThenRepopulated ==
    \A x \in Pipes :
        (/\ Pipe(x).pc = "done" /\ hs[x[1]].alone /\ Pipe(x).had
         /\ Pipe(x).res # "DeliveredRef" /\ Pipe(x).srcOk /\ ~Pipe(x).txFailed)
        => /\ Pipe(x).res = "DeliveredSrc"
           /\ Pipe(x).log = <<"inv", "put">>
           /\ Pipe(x).putId # Pipe(x).id1
           /\ hs[x[1]].outcome = "Sent"

C2_Witness ==
    \E x \in Pipes :
        /\ Pipe(x).pc = "done" /\ hs[x[1]].alone /\ Pipe(x).had /\ Pipe(x).rej
        /\ Pipe(x).res = "DeliveredSrc"

\* C3: every request whose cached file_id was rejected invalidates and makes
\* its one fallback attempt, ending Delivered, NotFound or Failed; none ends
\* with an unhandled error.
C3_FallbackAfterRejection ==
    \A x \in Pipes :
        Pipe(x).rej /\ Pipe(x).pc = "done"
        => /\ Pipe(x).res \in {"DeliveredSrc", "NotFound", "Failed"}
           /\ Pipe(x).log # <<>> /\ Pipe(x).log[1] = "inv"

\* C4: a request that starts while the key's entry is one a delivery wrote
\* and nothing has disturbed since (no file change, clear or invalidation)
\* finds no change, leaves both maps alone and tries the stored file_id;
\* when the transport accepts it the request has transmitted nothing and
\* written nothing.
C4_ServedByReference ==
    \A x \in Pipes :
        Pipe(x).fr
        => /\ ~Pipe(x).chg /\ Pipe(x).kept
           /\ Pipe(x).refs = 1 /\ Pipe(x).refId = Pipe(x).id1
           /\ Pipe(x).pc = "cache_wait" => Pipe(x).txs = 0
           /\ Pipe(x).res = "DeliveredRef" => Pipe(x).txs = 0 /\ Pipe(x).log = <<>>

C4_Witness == \E x \in Pipes : Pipe(x).fr /\ Pipe(x).res = "DeliveredRef"

\* C5: a request that finds an entry (id1, H1) while the file has digest
\* H2 # H1 never delivers by reference: it removes the entry, transmits the
\* source, and on success leaves (id2, H2) with a newly issued id2.
C5_ReplacedWithNewDigest ==
    \A x \in Pipes :
        Pipe(x).h2 # 0
        => /\ Pipe(x).refs = 0 /\ Pipe(x).chg
           /\ Pipe(x).log # <<>> /\ Pipe(x).log[1] = "inv"
           /\ Pipe(x).txs = 1
           /\ Pipe(x).res = "DeliveredSrc"
              => Pipe(x).putId # Pipe(x).id1 /\ Pipe(x).putDigest = Pipe(x).h2

\* C7: when the digest of the source cannot be computed the change check
\* answers false and leaves both maps as they were, and a key that had an
\* entry goes on to the delivery by reference with that entry.
C7_AbsentIsNotChanged ==
    \A x \in Pipes :
        Pipe(x).nohash
        => /\ ~Pipe(x).chg /\ Pipe(x).kept
           /\ Pipe(x).had => Pipe(x).refs = 1 /\ Pipe(x).refId = Pipe(x).id1

C7_Witness == \E x \in Pipes : Pipe(x).nohash /\ Pipe(x).had

\* C6 as claimed: for a key with a recorded baseline whose file could be
\* hashed at the previous call and ever since, file_has_changed answers true
\* exactly when the file's digest changed since that call.
C6_TrueOncePerChange ==
    (hc.key # "" /\ hc.had /\ hc.wasSteady) => (hc.res = hc.wasDirty)

\* C6 amended: file_has_changed answers true exactly when the digest can be
\* computed and differs from the digest the previous such call for the key
\* computed (or there was none), and it then holds the new digest as the
\* baseline; a change undone before the next call is not reported.
C6_ComparesWithLastSeen ==
    hc.key # ""
    => /\ hc.res = hc.exp
       /\ hc.cur \in Digests
          => Has(FILE_HASHES, hc.key) /\ FILE_HASHES[hc.key] = hc.cur

C6_Witness ==
    hc.key # "" /\ hc.had /\ hc.wasSteady /\ hc.wasDirty /\ ~hc.res

\* a handler of one of cmds starts for a caller outside ADMIN_IDS: it answers
\* PermissionDenied and both maps stay as they were
Denied(s, cmds) ==
    (hs[s].pc = "idle" /\ hs'[s].cmd \in cmds /\ hs'[s].user \notin ADMIN_IDS)
    => /\ hs'[s].outcome = "PermissionDenied"
       /\ CACHED_FILES' = CACHED_FILES
       /\ FILE_HASHES' = FILE_HASHES

\* C8 as claimed: clear_cache, force_cache, debug_cache and cache_status all
\* answer PermissionDenied to a caller outside ADMIN_IDS and change no map.
C8_EveryAdminEntryGated ==
    [][\A s \in Slots :
         Denied(s, {"clear_cache", "force_cache", "debug_cache", "cache_status"})]_vars

\* C8 amended: clear_cache, force_cache and debug_cache answer
\* PermissionDenied to a caller outside ADMIN_IDS and change no map;
\* cache_status has no caller check: it answers any caller with the listing
\* (or raises on a None digest), never PermissionDenied, and changes no map.
C8_AdminGate ==
    [][\A s \in Slots :
         /\ Denied(s, {"clear_cache", "force_cache", "debug_cache"})
         /\ (hs[s].pc = "idle" /\ hs'[s].cmd = "cache_status")
            => /\ hs'[s].outcome \in {"Status", "Raised"}
               /\ CACHED_FILES' = CACHED_FILES
               /\ FILE_HASHES' = FILE_HASHES]_vars

C8_Witness ==
    /\ DOMAIN CACHED_FILES # {}
    /\ \E s \in Slots :
          /\ hs[s].cmd \in {"clear_cache", "force_cache", "debug_cache"}
          /\ hs[s].user \notin ADMIN_IDS
          /\ hs[s].outcome = "PermissionDenied"

\* C9: when /instalar has gathered its pipelines, the count is the number of
\* pipelines that delivered, and a pipeline B whose source stayed readable
\* and whose transmission the transport did not refuse has delivered even
\* though its sibling A did not (A's video missing, A failed or A raised).
C9_SiblingsIndependent ==
    \A s \in Slots :
        hs[s].cmd = "instalar" /\ hs[s].pc = "done"
        => /\ hs[s].count = Cardinality({i \in 1..Len(hs[s].p) : Delivered(hs[s].p[i])})
           /\ \A a, b \in 1..Len(hs[s].p) :
                 (/\ a # b /\ ~Delivered(hs[s].p[a])
                  /\ hs[s].p[b].srcOk /\ ~hs[s].p[b].txFailed)
                 => Delivered(hs[s].p[b])

\* C10: at every suspension point the digest stored for a cached key is the
\* one written by the very put that wrote the key's file_id.
C10_EntryWrittenWhole ==
    \A k \in DOMAIN CACHED_FILES :
        Has(FILE_HASHES, k) /\ FILE_HASHES[k] = issued[CACHED_FILES[k]].digest

C10_Witness ==
    \E s, t \in Slots :
        /\ s # t /\ Len(hs[s].p) >= 1 /\ Len(hs[t].p) >= 1
        /\ hs[s].p[1].key = hs[t].p[1].key
        /\ hs[s].p[1].res = "DeliveredSrc" /\ hs[t].p[1].res = "DeliveredSrc"
        /\ ~hs[s].alone /\ ~hs[t].alone

\* the send_cached_file call i of handler s before a step; "none" if the
\* step makes the call
PipeWas(s, i) ==
    IF i <= Len(hs[s].p) THEN hs[s].p[i]
    ELSE [pc |-> "none", log |-> <<>>, rej |-> FALSE, txFailed |-> FALSE, key |-> ""]

\* the step makes the send_cached_file call i of handler s (into its first
\* await or to its end) or moves it on
PipeStep(s, i) ==
    /\ i <= Len(hs'[s].p)
    /\ hs'[s].p[i].pc \notin {"start", "msg_wait", PipeWas(s, i).pc}

\* C11: the step in which the transport refuses a transmission of the source
\* file changes neither map, and the request is then over with Failed after
\* its single transmission, with no put made.
C11_FailedTransmissionWritesNothing ==
    [][\A s \in Slots, i \in 1..2 :
         (i <= Len(hs'[s].p) /\ hs'[s].p[i].txFailed)
         => /\ hs'[s].p[i].pc = "done" /\ hs'[s].p[i].res = "Failed"
            /\ hs'[s].p[i].txs = 1 /\ hs'[s].p[i].putId = 0
            /\ \A n \in 1..Len(hs'[s].p[i].log) : hs'[s].p[i].log[n] # "put"
            /\ ~PipeWas(s, i).txFailed
               => CACHED_FILES' = CACHED_FILES /\ FILE_HASHES' = FILE_HASHES]_vars

C11_Witness ==
    \E x \in Pipes :
        /\ Pipe(x).txFailed /\ Pipe(x).res = "Failed"
        /\ Has(FILE_HASHES, Pipe(x).key) /\ ~Has(CACHED_FILES, Pipe(x).key)

\* C12: a send_cached_file call made while the key has no entry and the
\* source file does not exist ends at once with NotFound, with no delivery
\* by reference and no transmission attempted and both maps as they were.
C12_MissingSourceNotFound ==
    [][\A s \in Slots, i \in 1..2 :
         (/\ PipeStep(s, i) /\ PipeWas(s, i).pc \in {"none", "start"}
          /\ file[hs'[s].p[i].file] = Missing
          /\ ~Has(CACHED_FILES, hs'[s].p[i].key))
         => /\ hs'[s].p[i].pc = "done" /\ hs'[s].p[i].res = "NotFound"
            /\ hs'[s].p[i].txs = 0 /\ hs'[s].p[i].refs = 0
            /\ hs'[s].cmd \in SingleCmds => hs'[s].outcome = "NotSent"
            /\ CACHED_FILES' = CACHED_FILES /\ FILE_HASHES' = FILE_HASHES]_vars

C12_Witness ==
    \E x \in Pipes :
        /\ Pipe(x).res = "NotFound" /\ ~Pipe(x).had /\ Pipe(x).refs = 0
        /\ DOMAIN FILE_HASHES # {}

\* C13: clear_cache called by an admin leaves both maps empty and reports
\* the number of entries CACHED_FILES held just before.
C13_ClearEmptiesAndCounts ==
    [][\A s \in Slots :
         (hs[s].pc = "idle" /\ hs'[s].cmd = "clear_cache" /\ hs'[s].user \in ADMIN_IDS)
         => /\ CACHED_FILES' = EmptyDict /\ FILE_HASHES' = EmptyDict
            /\ hs'[s].outcome = "Cleared"
            /\ hs'[s].count = Cardinality(DOMAIN CACHED_FILES)]_vars

C13_Witness ==
    \E s \in Slots :
        /\ hs[s].cmd = "clear_cache" /\ hs[s].outcome = "Cleared" /\ hs[s].count >= 1
        /\ CACHED_FILES = EmptyDict /\ FILE_HASHES = EmptyDict

\* C14: when a force_cache that ran alone has transmitted and written every
\* asset, every asset of a delivery command has an entry under the key that
\* command uses.
C14_ForceCoversDelivery ==
    [][\A s \in Slots :
         (/\ hs[s].pc = "fc_tx" /\ hs'[s].pc = "done" /\ hs'[s].alone
          /\ hs'[s].puts = 1..Len(ForceAssets))
         => \A a \in DeliveryAssets : Has(CACHED_FILES', a[2])]_vars

\* C15: every step of force_cache that ends a transmission either counts it
\* and writes the asset's entry, or (refused) leaves both maps alone, and
\* carries on; when force_cache is done every asset has been transmitted or
\* passed over for a file that did not open, and the count is the number of
\* assets written.
C15_ForceCarriesOn ==
    [][\A s \in Slots :
         (hs'[s].cmd = "force_cache" /\ hs'[s].idx # hs[s].idx)
         => /\ hs[s].pc = "fc_tx"
               => IF hs'[s].count = hs[s].count
                  THEN CACHED_FILES' = CACHED_FILES /\ FILE_HASHES' = FILE_HASHES
                  ELSE /\ hs'[s].count = hs[s].count + 1
                       /\ Has(CACHED_FILES', ForceAssets[hs[s].idx][2])
                       /\ Has(FILE_HASHES', ForceAssets[hs[s].idx][2])
            /\ hs'[s].pc = "done"
               => /\ hs'[s].tried \cup hs'[s].skipped = 1..Len(ForceAssets)
                  /\ hs'[s].tried \cap hs'[s].skipped = {}
                  /\ hs'[s].puts \subseteq hs'[s].tried
                  /\ hs'[s].count = Cardinality(hs'[s].puts)]_vars

C15_Witness ==
    \E s \in Slots :
        /\ hs[s].cmd = "force_cache" /\ hs[s].outcome = "Recached"
        /\ hs[s].skipped # {} /\ hs[s].puts # {} /\ hs[s].tried \ hs[s].puts # {}
        /\ \E n \in hs[s].puts : n > 1 /\ (n - 1) \notin hs[s].puts

\* C16: a step in which a send_cached_file call invalidates its key (after a
\* detected change or a rejected file_id) leaves the key with neither entry
\* nor baseline, and the handling of a rejection never raises, whether or
\* not the key still has an entry.
C16_InvalidateRemovesBoth ==
    [][\A s \in Slots, i \in 1..2 :
         i <= Len(hs'[s].p)
         => /\ (/\ Len(hs'[s].p[i].log) > Len(PipeWas(s, i).log)
                /\ hs'[s].p[i].log[Len(PipeWas(s, i).log) + 1] = "inv")
               => /\ ~Has(CACHED_FILES', hs'[s].p[i].key)
                  /\ ~Has(FILE_HASHES', hs'[s].p[i].key)
            /\ (hs'[s].p[i].rej /\ ~PipeWas(s, i).rej)
               => hs'[s].p[i].res # "Raised"]_vars

\* C17: a send_cached_file call makes at most one delivery by reference and
\* at most one transmission; the delivery by reference comes after a change
\* check that found no change, on a key that had an entry; the transmission
\* is made only if no delivery by reference was tried or the one tried was
\* rejected.
C17_OneAttemptEach ==
    \A x \in Pipes :
        /\ Pipe(x).refs <= 1 /\ Pipe(x).txs <= 1
        /\ Pipe(x).refs = 1 => ~Pipe(x).chg /\ Pipe(x).had
        /\ Pipe(x).txs = 1 => Pipe(x).refs = 0 \/ Pipe(x).rej
        /\ (Pipe(x).res = "DeliveredRef" => Pipe(x).txs = 0)

C17_Witness ==
    \E x \in Pipes :
        /\ Pipe(x).pc = "done" /\ Pipe(x).refs = 1 /\ Pipe(x).rej /\ Pipe(x).txs = 1

\* C18: when every transport call returns, every /pasar_pedido request ends:
\* its send_cached_file call has delivered by reference or from the source,
\* or ended NotFound or Failed and the caller gets the "not found" notice, or
\* raised and the caller gets the notice of error_handler.
C18_EveryRequestEnds ==
    \A s \in 1..MaxRequests :
        (hs[s].cmd = "pasar_pedido")
        ~> /\ hs[s].pc = "done"
           /\ \/ hs[s].outcome = "Sent" /\ Delivered(hs[s].p[1])
              \/ hs[s].outcome = "NotSent" /\ hs[s].p[1].res \in {"NotFound", "Failed"}
              \/ hs[s].outcome = "Raised" /\ hs[s].p[1].res = "Raised"

C18_Witness ==
    \E s, t \in Slots :
        /\ hs[s].cmd = "pasar_pedido" /\ hs[s].outcome = "Sent"
        /\ hs[t].cmd = "pasar_pedido" /\ hs[t].outcome = "Raised"

\* C19: when a transmission succeeds for a key that has lost entry and
\* baseline while it was in flight (a clear ran), the step writes the new
\* file_id and the digest the file has now, so the key has both; and a
\* request that starts on a key left like this, the file unchanged, tries the
\* stored file_id and transmits nothing.
C19_PutAfterClear ==
    [][\A s \in Slots, i \in 1..2 :
         /\ (/\ PipeWas(s, i).pc = "tx_wait" /\ hs'[s].p[i].res = "DeliveredSrc"
             /\ ~Has(CACHED_FILES, hs[s].p[i].key)
             /\ ~Has(FILE_HASHES, hs[s].p[i].key))
            => /\ Has(CACHED_FILES', hs[s].p[i].key)
               /\ CACHED_FILES'[hs[s].p[i].key] = Len(issued')
               /\ Len(issued') = Len(issued) + 1
               /\ Has(FILE_HASHES', hs[s].p[i].key)
               /\ FILE_HASHES'[hs[s].p[i].key] = get_file_hash(hs[s].p[i].file)
               /\ hs[s].p[i].key \in fresh'
         /\ (/\ PipeStep(s, i) /\ PipeWas(s, i).pc \in {"none", "start"}
             /\ hs'[s].p[i].key \in fresh)
            => /\ hs'[s].p[i].pc = "cache_wait"
               /\ hs'[s].p[i].refId = CACHED_FILES[hs'[s].p[i].key]
               /\ hs'[s].p[i].txs = 0
               /\ CACHED_FILES' = CACHED_FILES /\ FILE_HASHES' = FILE_HASHES]_vars

C19_Witness ==
    \E s, t, u \in Slots :
        /\ s < t /\ t < u
        /\ hs[s].cmd = "pasar_pedido" /\ hs[s].p[1].res = "DeliveredSrc"
        /\ hs[t].cmd = "clear_cache" /\ hs[t].outcome = "Cleared"
        /\ hs[u].cmd = "pasar_pedido" /\ hs[u].p[1].res = "DeliveredRef"
        /\ hs[u].p[1].refId = hs[s].p[1].putId

\* the maps hold the same for key k before and after a step
SameAt(k) ==
    /\ Has(CACHED_FILES', k) <=> Has(CACHED_FILES, k)
    /\ Has(CACHED_FILES, k) => CACHED_FILES'[k] = CACHED_FILES[k]
    /\ Has(FILE_HASHES', k) <=> Has(FILE_HASHES, k)
    /\ Has(FILE_HASHES, k) => FILE_HASHES'[k] = FILE_HASHES[k]

\* C20: a step of a send_cached_file call for key k leaves the entry and the
\* baseline of every other key as they were.
C20_OtherKeysUntouched ==
    [][\A s \in Slots, i \in 1..2 :
         PipeStep(s, i) => \A k \in Keys \ {hs'[s].p[i].key} : SameAt(k)]_vars

C20_Witness ==
    \E x \in Pipes :
        /\ Pipe(x).rej /\ Pipe(x).res = "DeliveredSrc"
        /\ \E k \in DOMAIN CACHED_FILES : k # Pipe(x).key /\ Has(FILE_HASHES, k)

\* C21: in every state between steps, whatever requests, clears and force
\* recaches have run and however they overlapped, each key with a file_id in
\* CACHED_FILES has a key in FILE_HASHES.
C21_EntryHasBaseline == DOMAIN CACHED_FILES \subseteq DOMAIN FILE_HASHES

\* an entry is cached while a request that had its file_id refused and a
\* force_cache that has made a put have overlapped
C21_Witness ==
    /\ DOMAIN CACHED_FILES # {}
    /\ \E s, t \in Slots :
          /\ hs[s].cmd = "force_cache" /\ hs[s].puts # {} /\ ~hs[s].alone
          /\ Len(hs[t].p) > 0 /\ hs[t].p[1].rej

\* C22: the step in which a request has the file_id it sent refused leaves an
\* entry of its key that holds another file_id, put by an overlapping request
\* while the reply was awaited, in CACHED_FILES.
C22_RejectionSparesNewerEntry ==
    [][\A s \in Slots, i \in 1..2 :
         (/\ PipeWas(s, i).pc = "cache_wait"
          /\ hs'[s].p[i].rej
          /\ Has(CACHED_FILES, hs[s].p[i].key)
          /\ CACHED_FILES[hs[s].p[i].key] # hs[s].p[i].refId)
         => /\ Has(CACHED_FILES', hs[s].p[i].key)
            /\ CACHED_FILES'[hs[s].p[i].key] = CACHED_FILES[hs[s].p[i].key]]_vars
====
